---------------------------- MODULE Spec2Model ----------------------------
(***************************************************************************)
(* Model of src/main.py: the fixture pipeline                              *)
(*   fetch -> extract rows -> build Match -> keep future -> render -> save *)
(*                                                                         *)
(* Text is modelled as a sequence of one-character strings, so that        *)
(* slicing, splitting, lower-casing and concatenation are computed the way *)
(* the program computes them.  The module is kept in ASCII: the Cyrillic   *)
(* literals of the source are written in Latin transliteration             *)
(* (CSKA, "doma", "V gostyah"), upper and lower case kept apart.           *)
(***************************************************************************)
EXTENDS Integers, Sequences, FiniteSets, TLC

VARIABLES
    NOW,            \* main.py:38  module-level datetime.now(), a civil datetime
    elapsed,        \* minutes of wall-clock time gone by since NOW was captured
    pc,             \* position of main(): start, rows, render, save, done, crashed
    err,            \* the exception that ended the run, "none" while there is none
    fetches,        \* number of GET requests issued
    html,           \* what fetch_html_from_sports_ru returned
    rowsRead,       \* the rows of the table body the for-loop has taken so far
    logged,         \* rows logged by logger.exception("Parsing error: ...")
    built,          \* the Match records the generator has yielded, in order
    refs,           \* the reference instants in_future() has compared against
    matches,        \* main.py:161  the list the comprehension collects
    rendered,       \* the event blocks generate_vcalendar_text has joined so far
    nowTextCache,   \* the memo of @cache get_now_text: <<>> or <<text>>
    text,           \* main.py:162  the calendar text handed to save_to_file
    file,           \* the content of cska.ics: <<>> until written, then <<text>>
    probe,          \* input of the function under study (function specifications)
    out             \* its result

vars == <<NOW, elapsed, pc, err, fetches, html, rowsRead, logged, built, refs,
          matches, rendered, nowTextCache, text, file, probe, out>>

pipeVars == <<NOW, elapsed, pc, err, fetches, html, rowsRead, logged, built,
              refs, matches, rendered, nowTextCache, text, file>>

-----------------------------------------------------------------------------
(* Bounds of the model *)

MaxRows == 3        \* rows of the table body read in one run
MaxElapsed == 2     \* minutes the wall clock may advance during one run
MaxNameLen == 2     \* length of the names in the identifier study

-----------------------------------------------------------------------------
(* Program constants, main.py:17-36 *)

MATCH_DURATION_MIN == 120

\* "Europe/Moscow" is UTC+3 with no daylight saving for the dates modelled
MoscowUtcOffsetMin == 180

\* the tracked club, main.py:21 (transliterated)
CSKA == <<"C", "S", "K", "A">>

\* the home marker, main.py:22 (transliterated, lower case)
SPORTS_RU_HOME == <<"d", "o", "m", "a">>

VCALENDAR_HEADER == "\nBEGIN:VCALENDAR\nVERSION:2.0"

VCALENDAR_FOOTER == "\nEND:VCALENDAR\n"

\* Python's None: an Optional is None or, for a string s, the one-element
\* <<s>> (so that None and the empty string differ); a parsed time is <<h, mi>>
None == <<>>

-----------------------------------------------------------------------------
(* Python string operations on sequences of characters *)

Min(a, b) == IF a < b THEN a ELSE b

DigitChars == <<"0", "1", "2", "3", "4", "5", "6", "7", "8", "9">>

IsDigit(c) == \E i \in 1..10 : DigitChars[i] = c

DigitVal(c) == (CHOOSE i \in 1..10 : DigitChars[i] = c) - 1

RECURSIVE NumVal(_)
NumVal(s) ==
    IF Len(s) = 0 THEN 0
    ELSE 10 * NumVal(SubSeq(s, 1, Len(s) - 1)) + DigitVal(s[Len(s)])

\* str(n) for n >= 0
RECURSIVE IntText(_)
IntText(n) ==
    IF n < 10 THEN <<DigitChars[n + 1]>>
    ELSE IntText(n \div 10) \o <<DigitChars[(n % 10) + 1]>>

\* s[a:b] with Python's clamping of the bounds (0 <= a)
Slice(s, a, b) == SubSeq(s, a + 1, Min(b, Len(s)))

\* s[a:]
SliceFrom(s, a) == SubSeq(s, a + 1, Len(s))

\* c in s
Contains(s, c) == \E i \in 1..Len(s) : s[i] = c

\* s.split(c): the parts between the occurrences of c
RECURSIVE Split(_, _)
Split(s, c) ==
    IF ~Contains(s, c) THEN <<s>>
    ELSE LET i == CHOOSE k \in 1..Len(s) :
                      s[k] = c /\ \A j \in 1..(k - 1) : s[j] # c
         IN  <<SubSeq(s, 1, i - 1)>> \o Split(SubSeq(s, i + 1, Len(s)), c)

UpperChars == <<"A", "B", "C", "D", "E", "F", "G", "H", "I", "J", "K", "L", "M",
                "N", "O", "P", "Q", "R", "S", "T", "U", "V", "W", "X", "Y", "Z">>

LowerChars == <<"a", "b", "c", "d", "e", "f", "g", "h", "i", "j", "k", "l", "m",
                "n", "o", "p", "q", "r", "s", "t", "u", "v", "w", "x", "y", "z">>

LowerChar(c) ==
    IF \E i \in 1..26 : UpperChars[i] = c
    THEN LowerChars[CHOOSE i \in 1..26 : UpperChars[i] = c]
    ELSE c

\* s.lower()
Lower(s) == [i \in 1..Len(s) |-> LowerChar(s[i])]

-----------------------------------------------------------------------------
(* datetime: dates, times and instants *)

IsLeap(y) == (y % 4 = 0 /\ y % 100 # 0) \/ y % 400 = 0

DaysInMonth(y, m) ==
    IF m = 2 THEN (IF IsLeap(y) THEN 29 ELSE 28)
    ELSE IF m \in {4, 6, 9, 11} THEN 30 ELSE 31

\* days before 1 January of year y (proleptic Gregorian, as date.toordinal)
DaysBeforeYear(y) ==
    365 * (y - 1) + ((y - 1) \div 4) - ((y - 1) \div 100) + ((y - 1) \div 400)

RECURSIVE DaysBeforeMonth(_, _)
DaysBeforeMonth(y, m) ==
    IF m = 1 THEN 0 ELSE DaysBeforeMonth(y, m - 1) + DaysInMonth(y, m - 1)

ToOrdinal(y, m, d) == DaysBeforeYear(y) + DaysBeforeMonth(y, m) + d

\* a datetime as the number of minutes on the proleptic time line
ToMinutes(dt) == ToOrdinal(dt.y, dt.m, dt.d) * 1440 + dt.h * 60 + dt.mi

FromMinutes(n) ==
    LET ord == n \div 1440
        rest == n % 1440
        y0 == (ord * 400) \div 146097
        yy == CHOOSE y \in y0..(y0 + 2) :
                  DaysBeforeYear(y) < ord /\ ord <= DaysBeforeYear(y + 1)
        mm == CHOOSE m \in 1..12 :
                  DaysBeforeMonth(yy, m) < ord - DaysBeforeYear(yy)
                  /\ ord - DaysBeforeYear(yy)
                       <= DaysBeforeMonth(yy, m) + DaysInMonth(yy, m)
    IN  [y |-> yy, m |-> mm,
         d |-> ord - DaysBeforeYear(yy) - DaysBeforeMonth(yy, mm),
         h |-> rest \div 60, mi |-> rest % 60]

\* datetime.combine(date, time)
Combine(date, time) ==
    [y |-> date.y, m |-> date.m, d |-> date.d, h |-> time[1], mi |-> time[2]]

\* dt + timedelta(minutes=n)
AddMinutes(dt, n) == FromMinutes(ToMinutes(dt) + n)

\* a > b on naive datetimes
DatetimeGT(a, b) == ToMinutes(a) > ToMinutes(b)

-----------------------------------------------------------------------------
(* class Match(BaseModel), main.py:41-58 *)

\* validation of the field `date: date` from a "YYYY-MM-DD" string
DateValid(s) ==
    /\ Len(s) = 10
    /\ s[5] = "-" /\ s[8] = "-"
    /\ \A i \in {1, 2, 3, 4, 6, 7, 9, 10} : IsDigit(s[i])
    /\ NumVal(SubSeq(s, 1, 4)) >= 1
    /\ NumVal(SubSeq(s, 6, 7)) \in 1..12
    /\ NumVal(SubSeq(s, 9, 10)) >= 1
    /\ NumVal(SubSeq(s, 9, 10))
         <= DaysInMonth(NumVal(SubSeq(s, 1, 4)), NumVal(SubSeq(s, 6, 7)))

DateOf(s) ==
    [y |-> NumVal(SubSeq(s, 1, 4)), m |-> NumVal(SubSeq(s, 6, 7)),
     d |-> NumVal(SubSeq(s, 9, 10))]

\* validation of the field `time: Optional[time]`: None, or a string <<s>>
\* that must read "HH:MM"
TimeValid(time) ==
    \/ time = None
    \/ LET s == time[1]
       IN  /\ Len(s) = 5
           /\ s[3] = ":"
           /\ \A i \in {1, 2, 4, 5} : IsDigit(s[i])
           /\ NumVal(SubSeq(s, 1, 2)) < 24
           /\ NumVal(SubSeq(s, 4, 5)) < 60

TimeOf(time) ==
    IF time = None THEN None
    ELSE <<NumVal(SubSeq(time[1], 1, 2)), NumVal(SubSeq(time[1], 4, 5))>>

\* the fields `home_team: str`, `away_team: str`, `tournament: str` take any text
StrValid(s) == \A i \in 1..Len(s) : s[i] \in STRING

\* Match(...) raises ValidationError exactly when this is false
MatchValid(home_team, away_team, date, time, tournament) ==
    /\ StrValid(home_team)
    /\ StrValid(away_team)
    /\ DateValid(date)
    /\ TimeValid(time)
    /\ StrValid(tournament)

\* the validated record
Match(home_team, away_team, date, time, tournament) ==
    [home_team |-> home_team, away_team |-> away_team, date |-> DateOf(date),
     time |-> TimeOf(time), tournament |-> tournament]

\* Match.get_uid, main.py:48-49
get_uid(match) ==
    match.tournament \o <<"_">> \o match.home_team \o <<"_">>
        \o match.away_team \o <<"_">> \o IntText(match.date.y)

\* Match.get_summary, main.py:51-52
get_summary(match) ==
    match.home_team \o <<" ", "-", " ">> \o match.away_team
        \o <<" ", "(">> \o match.tournament \o <<")">>

\* a variant in which midnight counts as false, as time objects did before
\* Python 3.5
TimeIsFalsyAtMidnight(time) == time = None \/ time = <<0, 0>>

\* main.py:55  `not self.time`: a datetime.time is truthy whatever its value,
\* so only None is falsy
TimeIsFalsy(time) == time = None

\* Match.in_future, main.py:54-58; reads the module-level NOW
in_future_against(match, now) ==
    IF TimeIsFalsy(match.time) THEN FALSE
    ELSE DatetimeGT(Combine(match.date, match.time), now)

in_future(match) == in_future_against(match, NOW)

-----------------------------------------------------------------------------
(* the body of the for-loop of yield_matches_from_sports_ru, main.py:84-122 *)

\* main.py:100  "DD.MM.YYYY" -> "YYYY-MM-DD" by character positions; the
\* variant rearranges as if the token were "MM.DD.YYYY"
ReformatMonthFirst(match_date) ==
    SliceFrom(match_date, 6) \o <<"-">> \o Slice(match_date, 0, 2)
        \o <<"-">> \o Slice(match_date, 3, 5)

Reformat(match_date) ==
    SliceFrom(match_date, 6) \o <<"-">> \o Slice(match_date, 3, 5)
        \o <<"-">> \o Slice(match_date, 0, 2)

\* main.py:102  away.lower() == SPORTS_RU_HOME
IsHomeMarker(away) == Lower(away) = SPORTS_RU_HOME

Raise(exc) == [kind |-> "raise", exc |-> exc, match |-> None]

Skip == [kind |-> "skip", exc |-> "ValidationError", match |-> None]

Yield(match) == [kind |-> "match", exc |-> "none", match |-> match]

\* one iteration on the cell texts row_data: yields a Match, logs and skips the
\* row (ValidationError), or raises out of the generator
BuildRow(row_data) ==
    IF Len(row_data) < 7 THEN Raise("IndexError")
    ELSE
    LET dt == row_data[1]
        tournament == row_data[3]
        team == row_data[6]
        away == row_data[7]
        parts == Split(dt, "|")
    IN  IF Contains(dt, "|") /\ Len(parts) # 2 THEN Raise("ValueError")
        ELSE
        LET date_token == IF Contains(dt, "|") THEN parts[1] ELSE dt
            match_time == IF Contains(dt, "|") THEN <<parts[2]>> ELSE None
            match_date == Reformat(date_token)
            home_team == IF IsHomeMarker(away) THEN CSKA ELSE team
            away_team == IF IsHomeMarker(away) THEN team ELSE CSKA
        IN  IF MatchValid(home_team, away_team, match_date, match_time, tournament)
            THEN Yield(Match(home_team, away_team, match_date, match_time,
                             tournament))
            ELSE Skip

-----------------------------------------------------------------------------
(* rendering, main.py:125-152 *)

Pad2(n) == IF n < 10 THEN <<"0">> \o IntText(n) ELSE IntText(n)

Pad4(n) ==
    IF n < 10 THEN <<"0", "0", "0">> \o IntText(n)
    ELSE IF n < 100 THEN <<"0", "0">> \o IntText(n)
    ELSE IF n < 1000 THEN <<"0">> \o IntText(n)
    ELSE IntText(n)

\* strftime("%Y%m%dT%H%M%SZ"); the model keeps no seconds
Strftime(dt) ==
    Pad4(dt.y) \o Pad2(dt.m) \o Pad2(dt.d) \o <<"T">> \o Pad2(dt.h)
        \o Pad2(dt.mi) \o <<"0", "0", "Z">>

\* get_datetime_text, main.py:125-127: Moscow wall time to UTC, then formatted
get_datetime_text(dt) == Strftime(AddMinutes(dt, 0 - MoscowUtcOffsetMin))

\* datetime.now() at the present moment of the run
WallClock == AddMinutes(NOW, elapsed)

\* a get_now_text without the memo and the module-level NOW: the stamp is
\* taken from the wall clock at each call
NowTextRecomputed == get_datetime_text(WallClock)

\* get_now_text, main.py:130-132: the memoised text of NOW
get_now_text ==
    IF nowTextCache # None THEN nowTextCache[1] ELSE get_datetime_text(NOW)

\* generate_vevent_text past its assertion, main.py:138-147
generate_vevent_text(match) ==
    LET start == Combine(match.date, match.time)
        end == AddMinutes(start, MATCH_DURATION_MIN)
    IN  [uid |-> get_uid(match), created |-> get_now_text,
         start |-> get_datetime_text(start), end |-> get_datetime_text(end),
         summary |-> get_summary(match)]

\* main.py:152
CalendarText(body) ==
    [header |-> VCALENDAR_HEADER, body |-> body, footer |-> VCALENDAR_FOOTER]

NoText == [header |-> "", body |-> <<>>, footer |-> ""]

-----------------------------------------------------------------------------
(* Inputs: table rows as the row extractor hands them over (main.py:85-86).  *)
(* A row is kept with the values it was written from, so that what the       *)
(* builder reads back can be compared with what the page meant.              *)

DtToken(d, m, y) == Pad2(d) \o <<".">> \o Pad2(m) \o <<".">> \o Pad4(y)

TimeToken(t) == Pad2(t[1]) \o <<":">> \o Pad2(t[2])

Filler == <<"x">>

Cells(dt, tournament, team, away) ==
    <<dt, Filler, tournament, Filler, Filler, team, away>>

\* a row written in the shape "DD.MM.YYYY" or "DD.MM.YYYY|HH:MM"
ShapedRow(d, m, y, t, tournament, team, away) ==
    [cells |-> Cells(IF t = None THEN DtToken(d, m, y)
                     ELSE DtToken(d, m, y) \o <<"|">> \o TimeToken(t),
                     tournament, team, away),
     shaped |-> TRUE, d |-> d, m |-> m, y |-> y, t |-> t]

\* any other row
OtherRow(cells) ==
    [cells |-> cells, shaped |-> FALSE, d |-> 0, m |-> 0, y |-> 0, t |-> None]

Cup == <<"C", "u", "p">>

Zenit == <<"Z", "e", "n", "i", "t">>

Rostov == <<"R", "o", "s", "t", "o", "v">>

Doma == <<"D", "o", "m", "a">>

DOMA == <<"D", "O", "M", "A">>

VGostyah == <<"V", " ", "g", "o", "s", "t", "y", "a", "h">>

DoMA == <<"D", "o", "M", "A">>

Markers == {SPORTS_RU_HOME, Doma, DOMA, DoMA, VGostyah, <<>>}

Teams == {Zenit, CSKA, <<>>}

Tournaments == {Cup, <<>>}

Days == {1, 18, 31}

Months == {1, 2}

Years == {2025, 2026}

Times == {None, <<0, 0>>, <<10, 0>>, <<23, 59>>, <<25, 0>>}

\* position 0 in other shapes: a second separator, an empty time, no padding
OddTokens ==
    { DtToken(18, 2, 2026) \o <<"|">> \o TimeToken(<<10, 0>>) \o <<"|", "0", "0">>,
      DtToken(18, 2, 2026) \o <<"|">>,
      <<"8", ".", "2", ".", "2", "0", "2", "6">>,
      <<>> }

\* the rows of the builder study
StudyRows ==
    { ShapedRow(d, m, y, t, tn, tm, mk) :
         d \in Days, m \in Months, y \in Years, t \in Times,
         tn \in Tournaments, tm \in Teams, mk \in Markers }
    \cup { OtherRow(Cells(tok, tn, tm, mk)) :
         tok \in OddTokens, tn \in Tournaments, tm \in Teams, mk \in Markers }
    \cup { OtherRow(SubSeq(Cells(DtToken(18, 2, 2026), Cup, Zenit, Doma), 1, n)) :
         n \in 0..6 }

StudyNows ==
    { [y |-> 2026, m |-> 1, d |-> 18, h |-> 10, mi |-> 0],
      [y |-> 2026, m |-> 1, d |-> 18, h |-> 0,  mi |-> 0],
      [y |-> 2025, m |-> 12, d |-> 31, h |-> 23, mi |-> 59],
      [y |-> 2026, m |-> 2, d |-> 1,  h |-> 10, mi |-> 1] }

\* the rows of the pipeline runs
PipelineRows ==
    { ShapedRow(20, 2, 2026, <<10, 0>>, Cup, Zenit, Doma),
      ShapedRow(21, 2, 2026, <<0, 0>>, Cup, Rostov, VGostyah),
      ShapedRow(10, 2, 2026, <<10, 0>>, Cup, Zenit, VGostyah),
      ShapedRow(18, 2, 2026, None, Cup, Rostov, Doma),
      ShapedRow(31, 2, 2026, <<10, 0>>, Cup, Zenit, Doma),
      ShapedRow(20, 2, 2026, <<25, 0>>, Cup, Zenit, Doma),
      OtherRow(Cells(DtToken(20, 2, 2026) \o <<"|">> \o TimeToken(<<10, 0>>)
                         \o <<"|", "0", "0">>, Cup, Zenit, Doma)),
      OtherRow(<<DtToken(20, 2, 2026), Filler, Cup>>) }

PipelineNows ==
    { [y |-> 2026, m |-> 2, d |-> 15, h |-> 12, mi |-> 0],
      [y |-> 2026, m |-> 2, d |-> 20, h |-> 10, mi |-> 0] }

-----------------------------------------------------------------------------
(* The run of main(), main.py:160-164 *)

\* what requests.get and raise_for_status can come to: a RequestException, or
\* a response text that is empty, lacks the table, lacks its tbody, or has both
FetchOutcomes ==
    { [exception |-> TRUE,  empty |-> TRUE,  table |-> FALSE, tbody |-> FALSE],
      [exception |-> FALSE, empty |-> TRUE,  table |-> FALSE, tbody |-> FALSE],
      [exception |-> FALSE, empty |-> FALSE, table |-> FALSE, tbody |-> FALSE],
      [exception |-> FALSE, empty |-> FALSE, table |-> TRUE,  tbody |-> FALSE],
      [exception |-> FALSE, empty |-> FALSE, table |-> TRUE,  tbody |-> TRUE] }

NotFetched == [isNone |-> TRUE, empty |-> TRUE, table |-> FALSE, tbody |-> FALSE]

\* fetch_html_from_sports_ru, main.py:61-71: None on a RequestException
fetch_html_from_sports_ru(outcome) ==
    [isNone |-> outcome.exception, empty |-> outcome.empty,
     table |-> outcome.table, tbody |-> outcome.tbody]

\* a guard that tests for None only
HtmlIsNone(html_text) == html_text.isNone

\* main.py:76  `not html_text`: None and the empty string
HtmlIsFalsy(html_text) == html_text.isNone \/ html_text.empty

\* a comprehension without its condition
KeepAll(match) == TRUE

\* main.py:161  the condition of the list comprehension
Keep(match) == in_future(match)

Running == pc \in {"start", "rows", "render", "save"}

\* main.py:75-83: the generator's first step, up to the for-loop
Fetch ==
    /\ pc = "start"
    /\ \E outcome \in FetchOutcomes :
          LET html_text == fetch_html_from_sports_ru(outcome)
          IN  /\ html' = html_text
              /\ fetches' = fetches + 1
              /\ IF HtmlIsFalsy(html_text)
                 THEN pc' = "render" /\ err' = err
                 ELSE IF ~html_text.table \/ ~html_text.tbody
                 THEN pc' = "crashed" /\ err' = "AttributeError"
                 ELSE pc' = "rows" /\ err' = err
    /\ UNCHANGED <<NOW, elapsed, rowsRead, logged, built, refs, matches,
                   rendered, nowTextCache, text, file, probe, out>>

\* main.py:84-122 and the comprehension's condition: one row of the table body
ProcessRow ==
    /\ pc = "rows"
    /\ Len(rowsRead) < MaxRows
    /\ \E row \in PipelineRows :
          LET r == BuildRow(row.cells)
          IN  /\ rowsRead' = Append(rowsRead, row)
              /\ pc' = IF r.kind = "raise" THEN "crashed" ELSE pc
              /\ err' = IF r.kind = "raise" THEN r.exc ELSE err
              /\ logged' = IF r.kind = "skip" THEN Append(logged, row.cells)
                           ELSE logged
              /\ built' = IF r.kind = "match" THEN Append(built, r.match)
                          ELSE built
              /\ refs' = IF r.kind = "match" /\ ~TimeIsFalsy(r.match.time)
                         THEN refs \cup {NOW} ELSE refs
              /\ matches' = IF r.kind = "match" /\ Keep(r.match)
                            THEN Append(matches, r.match) ELSE matches
    /\ UNCHANGED <<NOW, elapsed, fetches, html, rendered, nowTextCache, text,
                   file, probe, out>>

\* the table body has no further row: the generator and the comprehension end
EndRows ==
    /\ pc = "rows"
    /\ pc' = "render"
    /\ UNCHANGED <<NOW, elapsed, err, fetches, html, rowsRead, logged, built,
                   refs, matches, rendered, nowTextCache, text, file, probe, out>>

\* main.py:135-147 inside the join of main.py:151: the next event block
RenderEvent ==
    /\ pc = "render"
    /\ Len(rendered) < Len(matches)
    /\ LET match == matches[Len(rendered) + 1]
       IN  IF TimeIsFalsy(match.time)
           THEN /\ pc' = "crashed"
                /\ err' = "AssertionError"
                /\ UNCHANGED <<rendered, nowTextCache>>
           ELSE /\ rendered' = Append(rendered, generate_vevent_text(match))
                /\ nowTextCache' = <<get_now_text>>
                /\ UNCHANGED <<pc, err>>
    /\ UNCHANGED <<NOW, elapsed, fetches, html, rowsRead, logged, built, refs,
                   matches, text, file, probe, out>>

\* main.py:152: header, joined blocks, footer
RenderDone ==
    /\ pc = "render"
    /\ Len(rendered) = Len(matches)
    /\ text' = CalendarText(rendered)
    /\ pc' = "save"
    /\ UNCHANGED <<NOW, elapsed, err, fetches, html, rowsRead, logged, built,
                   refs, matches, rendered, nowTextCache, file, probe, out>>

\* save_to_file, main.py:155-157: the write succeeds or raises OSError
Save ==
    /\ pc = "save"
    /\ \E ok \in BOOLEAN :
          IF ok
          THEN file' = <<text>> /\ pc' = "done" /\ err' = err
          ELSE file' = file /\ pc' = "crashed" /\ err' = "OSError"
    /\ UNCHANGED <<NOW, elapsed, fetches, html, rowsRead, logged, built, refs,
                   matches, rendered, nowTextCache, text, probe, out>>

\* time passes while the run is under way
Tick ==
    /\ Running
    /\ elapsed < MaxElapsed
    /\ elapsed' = elapsed + 1
    /\ UNCHANGED <<NOW, pc, err, fetches, html, rowsRead, logged, built, refs,
                   matches, rendered, nowTextCache, text, file, probe, out>>

Idle(position) ==
    /\ elapsed = 0
    /\ pc = position
    /\ err = "none"
    /\ fetches = 0
    /\ html = NotFetched
    /\ rowsRead = <<>>
    /\ logged = <<>>
    /\ built = <<>>
    /\ refs = {}
    /\ matches = <<>>
    /\ rendered = <<>>
    /\ nowTextCache = None
    /\ text = NoText
    /\ file = <<>>

Init ==
    /\ NOW \in PipelineNows
    /\ Idle("start")
    /\ probe = <<>>
    /\ out = <<>>

Next == Fetch \/ ProcessRow \/ EndRows \/ RenderEvent \/ RenderDone \/ Save \/ Tick

Spec == Init /\ [][Next]_vars

-----------------------------------------------------------------------------
(* The builder and in_future() on one row: the row is built, and the Match, *)
(* if there is one, is asked whether it is in the future.                   *)

NotBuilt == [stage |-> "input", res |-> Skip, future |-> FALSE]

InitBuild ==
    /\ NOW \in StudyNows
    /\ Idle("study")
    /\ probe \in StudyRows
    /\ out = NotBuilt

BuildStep ==
    /\ pc = "study"
    /\ out.stage = "input"
    /\ out' = [stage |-> "built", res |-> BuildRow(probe.cells), future |-> FALSE]
    /\ UNCHANGED <<pipeVars, probe>>

FutureStep ==
    /\ pc = "study"
    /\ out.stage = "built"
    /\ out.res.kind = "match"
    /\ out' = [out EXCEPT !.stage = "judged",
                          !.future = in_future(out.res.match)]
    /\ UNCHANGED <<pipeVars, probe>>

NextBuild == BuildStep \/ FutureStep

SpecBuild == InitBuild /\ [][NextBuild]_vars

-----------------------------------------------------------------------------
(* get_uid() on two Match records *)

NameChars == {"a", "_"}

Names == UNION { [1..n -> NameChars] : n \in 1..MaxNameLen }

UidMatches ==
    { [home_team |-> h, away_team |-> a, date |-> [y |-> y, m |-> 1, d |-> d],
       time |-> <<10, 0>>, tournament |-> t] :
         h \in Names, a \in Names, t \in Names, y \in Years, d \in {1, 2} }

InitUid ==
    /\ NOW = [y |-> 2026, m |-> 2, d |-> 15, h |-> 12, mi |-> 0]
    /\ Idle("uid")
    /\ probe \in UidMatches \X UidMatches
    /\ out = <<>>

UidStep ==
    /\ pc = "uid"
    /\ out = <<>>
    /\ out' = <<get_uid(probe[1]), get_uid(probe[2])>>
    /\ UNCHANGED <<pipeVars, probe>>

NextUid == UidStep

SpecUid == InitUid /\ [][NextUid]_vars

-----------------------------------------------------------------------------
(* What the claims speak of, stated on the values a row was written from *)

\* a is later than b, field by field from the year down to the minute
LexAfter(a, b) ==
    \E i \in 1..5 : a[i] > b[i] /\ \A j \in 1..(i - 1) : a[j] = b[j]

NowFields == <<NOW.y, NOW.m, NOW.d, NOW.h, NOW.mi>>

KickoffFields(match) ==
    <<match.date.y, match.date.m, match.date.d, match.time[1], match.time[2]>>

StrictlyAfterNow(match) ==
    match.time # None /\ LexAfter(KickoffFields(match), NowFields)

RealDate(row) == row.m \in 1..12 /\ row.d \in 1..DaysInMonth(row.y, row.m)

RealTime(t) == t[1] \in 0..23 /\ t[2] \in 0..59

\* a row of the documented shape with a real date and, if any, a real time
ValidRow(row) ==
    row.shaped /\ RealDate(row) /\ (row.t = None \/ RealTime(row.t))

\* a valid row whose kickoff is after the reference instant
ValidFutureRow(row) ==
    /\ ValidRow(row)
    /\ row.t # None
    /\ LexAfter(<<row.y, row.m, row.d, row.t[1], row.t[2]>>, NowFields)

\* every spelling of the home marker in upper and lower case
HomeSpellings ==
    { <<a, b, c, d>> : a \in {"d", "D"}, b \in {"o", "O"},
                       c \in {"m", "M"}, d \in {"a", "A"} }

EmptyCalendar ==
    [header |-> "\nBEGIN:VCALENDAR\nVERSION:2.0", body |-> <<>>,
     footer |-> "\nEND:VCALENDAR\n"]

MalformedAt == { i \in 1..Len(rowsRead) : ~ValidRow(rowsRead[i]) }

-----------------------------------------------------------------------------
(* The claims *)

\* C1: when exactly one of the rows read is malformed and every other one is
\* a valid row with a future kickoff, the malformed row does not end the run
\* (no exception leaves the row loop), and the calendar handed to the write
\* step holds one event per valid row and none for the malformed one.
C1_MalformedRowNeverAborts ==
    (Cardinality(MalformedAt) = 1
       /\ \A i \in 1..Len(rowsRead) :
             i \in MalformedAt \/ ValidFutureRow(rowsRead[i]))
    => /\ err \in {"none", "OSError"}
       /\ pc \in {"save", "done"} => Len(text.body) = Len(rowsRead) - 1

\* C2: a run ends without reaching the write step only when the write itself
\* failed, and the text given to save_to_file is header, event blocks, footer.
C2_OnlyPersistenceAborts ==
    /\ pc = "crashed" => err = "OSError"
    /\ pc \in {"save", "done"} =>
          text.header = VCALENDAR_HEADER /\ text.footer = VCALENDAR_FOOTER

\* C3: after a fetch that failed (transport error) or gave empty markup there
\* is exactly one request, no row is read, no exception other than a failing
\* write ends the run, the run goes on to the write step, and the text written
\* is the header followed by the footer with no event block.
C3_FailedFetchGivesEmptyCalendar ==
    (fetches > 0 /\ (html.isNone \/ html.empty))
    => /\ fetches = 1
       /\ rowsRead = <<>> /\ built = <<>> /\ rendered = <<>>
       /\ pc \in {"render", "save", "done", "crashed"}
       /\ pc = "crashed" => err = "OSError"
       /\ pc \in {"save", "done"} => text = EmptyCalendar
       /\ pc = "done" => file = <<EmptyCalendar>>

C3_Witness ==
    /\ pc = "done"
    /\ fetches = 1
    /\ html.isNone
    /\ file = <<EmptyCalendar>>

\* C4: every Match the builder produces has exactly one of home_team and
\* away_team equal to the tracked club.
C4_ExactlyOneSideIsTrackedClub ==
    (out.stage # "input" /\ out.res.kind = "match")
    => (out.res.match.home_team = CSKA) # (out.res.match.away_team = CSKA)

\* C5: in_future() is false for a Match without a time; for a Match with a
\* time it is true exactly when the kickoff is strictly after NOW, a kickoff
\* equal to NOW or at 00:00 included.
C5_InFutureIsStrictlyAfterNow ==
    out.stage = "judged"
    => LET match == out.res.match
       IN  /\ match.time = None => ~out.future
           /\ match.time # None =>
                 (out.future <=> LexAfter(KickoffFields(match), NowFields))

C5_Witness ==
    /\ out.stage = "judged"
    /\ out.res.match.time = <<0, 0>>
    /\ out.future

\* C6: two Match records have the same identifier exactly when they agree on
\* tournament, home_team, away_team and the year of the date.
C6_UidIsInjectiveOnTuples ==
    out # <<>>
    => ((out[1] = out[2])
          <=> /\ probe[1].tournament = probe[2].tournament
              /\ probe[1].home_team = probe[2].home_team
              /\ probe[1].away_team = probe[2].away_team
              /\ probe[1].date.y = probe[2].date.y)

\* C7: every Match the builder produces has non-empty home_team, away_team and
\* tournament; a row with an empty tournament or opposing-team cell gives no
\* Match.
C7_BuiltMatchHasNonEmptyTexts ==
    (out.stage # "input" /\ out.res.kind = "match")
    => /\ out.res.match.home_team # <<>>
       /\ out.res.match.away_team # <<>>
       /\ out.res.match.tournament # <<>>
       /\ probe.cells[3] # <<>> /\ probe.cells[6] # <<>>

\* C8: the list handed to the renderer is the built matches that are strictly
\* after NOW, in row order; the event blocks are one per such match in that
\* order; no Match without a time is rendered and the assertion never fails.
C8_RenderedAreTheFutureMatchesInOrder ==
    /\ matches = SelectSeq(built, StrictlyAfterNow)
    /\ err # "AssertionError"
    /\ Len(rendered) <= Len(matches)
    /\ \A i \in 1..Len(rendered) :
          /\ matches[i].time # None
          /\ rendered[i].uid = get_uid(matches[i])
          /\ rendered[i].summary = get_summary(matches[i])
          /\ rendered[i].start
               = get_datetime_text(Combine(matches[i].date, matches[i].time))
    /\ pc \in {"save", "done"} =>
          text.body = rendered /\ Len(rendered) = Len(matches)

C8_Witness ==
    /\ pc = "done"
    /\ Len(built) = 3
    /\ Len(file[1].body) = 2
    /\ built[2].time = None
    /\ file[1].body[1].uid # file[1].body[2].uid

\* C9: every in_future() comparison of the run is made against NOW, and every
\* event block carries the same DTSTAMP, the formatted NOW, however far the
\* wall clock has moved since NOW was captured.
C9_OneReferenceInstant ==
    /\ refs \subseteq {NOW}
    /\ nowTextCache # None => nowTextCache[1] = Strftime(AddMinutes(NOW, -180))
    /\ \A i \in 1..Len(rendered) :
          rendered[i].created = Strftime(AddMinutes(NOW, -180))
    /\ \A i \in 1..Len(text.body) :
          text.body[i].created = Strftime(AddMinutes(NOW, -180))

C9_Witness ==
    /\ pc = "done"
    /\ elapsed > 0
    /\ Len(file[1].body) >= 2
    /\ refs = {NOW}

\* C10: for a row "DD.MM.YYYY" or "DD.MM.YYYY|HH:MM" with a real date and
\* time the builder yields the Match with that date, that time (absent exactly
\* when the row has no '|'), position 2 as tournament, and the tracked club at
\* home against position 5 exactly when position 6 spells the home marker in
\* any letter case.
C10_BuilderMatchesReference ==
    (out.stage # "input" /\ ValidRow(probe))
    => /\ out.res.kind = "match"
       /\ out.res.match.date = [y |-> probe.y, m |-> probe.m, d |-> probe.d]
       /\ out.res.match.time = probe.t
       /\ (out.res.match.time = None) <=> ~Contains(probe.cells[1], "|")
       /\ out.res.match.tournament = probe.cells[3]
       /\ IF probe.cells[7] \in HomeSpellings
          THEN /\ out.res.match.home_team = CSKA
               /\ out.res.match.away_team = probe.cells[6]
          ELSE /\ out.res.match.home_team = probe.cells[6]
               /\ out.res.match.away_team = CSKA

C10_Witness ==
    /\ out.stage = "built"
    /\ ValidRow(probe)
    /\ probe.cells[1] = DtToken(18, 2, 2026)
    /\ probe.cells[7] = DOMA
    /\ out.res.kind = "match"
    /\ out.res.match.date = [y |-> 2026, m |-> 2, d |-> 18]
    /\ out.res.match.time = None
    /\ out.res.match.home_team = CSKA

=============================================================================
